---- MODULE Spec2Model ----
(***************************************************************************)
(* Model of termoWebAppB1.py: a two-step Streamlit form that collects      *)
(* thermographic readings, derives phase-to-phase deltas, classifies them  *)
(* and renders a Word report.                                              *)
(*                                                                         *)
(* Numbers are fixed-point, in thousandths of a unit (4.125 is 4125).      *)
(* The temperatures of the bounded input sets are multiples of 0.125, on   *)
(* which IEEE-754 double subtraction is exact and Python's round(x, 2)     *)
(* breaks exact ties to the even hundredth.                                *)
(*                                                                         *)
(* A Python str is a sequence of pieces; a piece is one character of a     *)
(* numeric literal, or a whole word of text.  A Python dict is a function  *)
(* whose DOMAIN is the set of keys present; a key is <<name, i>> with i    *)
(* the object suffix N<i>, and i = 0 for the project-level keys.           *)
(***************************************************************************)
EXTENDS Integers, Sequences, FiniteSets, TLC

VARIABLES step, data, ui, doc, env, outcome, crash, shown, rendered, saved,
          nruns, streak, trace, call, ret

vars == <<step, data, ui, doc, env, outcome, crash, shown, rendered, saved,
          nruns, streak, trace, call, ret>>

(* ---------------------------- bounds ---------------------------------- *)

MaxObj == 2

MaxRuns == 3

(* ------------------------- Python values ------------------------------ *)

None == [t |-> "none", v |-> <<>>]

Num(n) == [t |-> "num", v |-> n]

Str(s) == [t |-> "str", v |-> s]

File == [t |-> "file", v |-> <<>>]

InlineImage == [t |-> "image", v |-> <<>>]

Date == [t |-> "date", v |-> <<>>]

Celsius(n) == n * 1000

Abs(x) == IF x < 0 THEN -x ELSE x

Digits == <<"0", "1", "2", "3", "4", "5", "6", "7", "8", "9">>

DigitVal(c) == CHOOSE d \in 0..9 : Digits[d + 1] = c

IsDigit(c) == \E d \in 0..9 : Digits[d + 1] = c

Ok(x) == [ok |-> TRUE, val |-> x, exc |-> "", msg |-> ""]

Raise(e, m) == [ok |-> FALSE, val |-> 0, exc |-> e, msg |-> m]

(* dict.get(key): the stored value, None when the key is absent *)
Get(d, k) == IF k \in DOMAIN d THEN d[k] ELSE None

(* d[key] = value *)
Put(d, k, x) == [y \in (DOMAIN d) \cup {k} |-> IF y = k THEN x ELSE d[y]]

EmptyDict == [y \in {} |-> None]

(* the assignments d[kvs[1][1]] = kvs[1][2]; d[kvs[2][1]] = kvs[2][2]; ... *)
RECURSIVE PutSeq(_, _)
PutSeq(d, kvs) ==
    IF kvs = <<>> THEN d
    ELSE PutSeq(Put(d, kvs[1][1], kvs[1][2]), SubSeq(kvs, 2, Len(kvs)))

(* -------------------------- str and float ----------------------------- *)

(* str.replace(',', '.') *)
ReplaceComma(s) == [j \in 1..Len(s) |-> IF s[j] = "," THEN "." ELSE s[j]]

RECURSIVE DigitsVal(_)
DigitsVal(s) ==
    IF s = <<>> THEN 0
    ELSE 10 * DigitsVal(SubSeq(s, 1, Len(s) - 1)) + DigitVal(s[Len(s)])

Pad3(s) == SubSeq(s \o <<"0", "0", "0">>, 1, 3)

(* float(str): [sign] digits [. digits], at least one digit, whitespace,   *)
(* exponents and inf/nan being outside the alphabet of the bounded sets;   *)
(* fractional digits beyond the third are below the model's resolution     *)
PyFloatStr(s) ==
    LET neg == Len(s) > 0 /\ s[1] = "-"
        signed == Len(s) > 0 /\ s[1] \in {"-", "+"}
        body == IF signed THEN SubSeq(s, 2, Len(s)) ELSE s
        dots == {j \in 1..Len(body) : body[j] = "."}
        p == IF dots = {} THEN Len(body) + 1 ELSE CHOOSE j \in dots : TRUE
        ip == SubSeq(body, 1, p - 1)
        fp == SubSeq(body, p + 1, Len(body))
        wellFormed == /\ Cardinality(dots) <= 1
                      /\ \A j \in 1..Len(body) : j \notin dots => IsDigit(body[j])
                      /\ Len(ip) + Len(fp) > 0
        mag == DigitsVal(ip) * 1000 + DigitsVal(Pad3(fp))
    IN  IF wellFormed THEN Ok(IF neg THEN -mag ELSE mag)
        ELSE Raise("ValueError", "could not convert string to float")

(* the builtin float(x) on a stored value *)
PyFloat(x) ==
    CASE x.t = "num" -> Ok(x.v)
      [] x.t = "str" -> PyFloatStr(x.v)
      [] OTHER -> Raise("TypeError", "float() argument must be a string or a real number")

(* safe_float_convert without the replacement of the comma *)
safe_float_convert_no_replace(d, key) ==
    LET value == Get(d, key)
    IN  IF value = None THEN Raise("ValueError", "Campo critico vacio")
        ELSE IF value.t = "num" THEN Ok(value.v)
        ELSE IF value.t = "str" THEN PyFloatStr(value.v)
        ELSE PyFloatStr(<<"o", "b", "j">>)

safe_float_convert(d, key) ==
    LET value == Get(d, key)
    IN  IF value = None THEN Raise("ValueError", "Campo critico vacio")
        ELSE IF value.t = "num" THEN Ok(value.v)
        ELSE IF value.t = "str" THEN PyFloatStr(ReplaceComma(value.v))
        ELSE PyFloatStr(<<"o", "b", "j">>)

RECURSIVE NatDigits(_)
NatDigits(n) ==
    IF n < 10 THEN <<Digits[n + 1]>>
    ELSE NatDigits(n \div 10) \o <<Digits[(n % 10) + 1]>>

RECURSIVE StripZeros(_)
StripZeros(s) ==
    IF Len(s) > 1 /\ s[Len(s)] = "0" THEN StripZeros(SubSeq(s, 1, Len(s) - 1))
    ELSE s

(* the decimal literal of a number, with the given decimal separator, as   *)
(* str(float) prints it: 21500 is 21.5, 5000 is 5.0                        *)
Decimal(x, sep) ==
    LET m == Abs(x)
        f == m % 1000
        frac == <<Digits[(f \div 100) + 1], Digits[((f \div 10) % 10) + 1], Digits[(f % 10) + 1]>>
    IN  (IF x < 0 THEN <<"-">> ELSE <<>>) \o NatDigits(m \div 1000) \o <<sep>> \o StripZeros(frac)

(* f"{x}" of a float *)
FormatFloat(x) == Decimal(x, ".")

(* round(x, 2) on an exactly representable x: nearest hundredth, exact     *)
(* ties to the even hundredth                                              *)
Round2(x) ==
    LET q == x \div 10
        r == x % 10
    IN  IF r < 5 THEN q * 10
        ELSE IF r > 5 THEN (q + 1) * 10
        ELSE IF q % 2 = 0 THEN q * 10 ELSE (q + 1) * 10

(* --------------------------- classification --------------------------- *)

(* clasificar_delta with the upper end of the second range left open *)
clasificar_delta_open(valor_Delta, prom_Temperatura) ==
    IF valor_Delta > 0 /\ valor_Delta < Celsius(4)
    THEN <<"Posible deficiencia", "Se requiere mas informacion">>
    ELSE IF valor_Delta >= Celsius(4) /\ valor_Delta < Celsius(15)
    THEN <<"Probable deficiencia", "Reparar en la proxima parada disponible">>
    ELSE IF valor_Delta >= Celsius(15) /\ prom_Temperatura >= Celsius(21)
            /\ prom_Temperatura <= Celsius(40)
    THEN <<"Deficiencia", "Reparar tan pronto como sea posible">>
    ELSE IF valor_Delta >= Celsius(15) /\ prom_Temperatura > Celsius(40)
    THEN <<"Deficiencia mayor", "Reparar inmediatamente">>
    ELSE <<"Sin clasificacion", "Verificar datos ingresados">>

clasificar_delta(valor_Delta, prom_Temperatura) ==
    IF valor_Delta > 0 /\ valor_Delta < Celsius(4)
    THEN <<"Posible deficiencia", "Se requiere mas informacion">>
    ELSE IF valor_Delta >= Celsius(4) /\ valor_Delta <= Celsius(15)
    THEN <<"Probable deficiencia", "Reparar en la proxima parada disponible">>
    ELSE IF valor_Delta > Celsius(15) /\ prom_Temperatura >= Celsius(21)
            /\ prom_Temperatura <= Celsius(40)
    THEN <<"Deficiencia", "Reparar tan pronto como sea posible">>
    ELSE IF valor_Delta > Celsius(15) /\ prom_Temperatura > Celsius(40)
    THEN <<"Deficiencia mayor", "Reparar inmediatamente">>
    ELSE <<"Sin clasificacion", "Verificar datos ingresados">>

(* ------------------- bounded inputs of the functions ------------------ *)

MagGrid == {-1000, 0, 10, 3990, 4000, 4010, 14990, 15000, 15010, 16000, 26120}

TempGrid == {-5000, 0, 10000, 20990, 21000, 25000, 40000, 40010, 45000}

RawNums == {0, 5000, 21500, 30000, 4125, -4125}

WellFormedStrs == {Decimal(n, sep) : n \in RawNums, sep \in {".", ","}}
                      \cup {<<"2", "1">>, <<"2", "1", ",", "5", "0">>, <<".", "5">>}

MalformedStrs == {<<"x">>, <<"N/A">>, <<"-">>, <<".">>, <<"1", ",", "2", ",", "3">>,
                  <<"1", ".", "2", ",", "3">>}

EmptyStr == <<>>

RawValues == {Num(n) : n \in RawNums}
                 \cup {Str(s) : s \in WellFormedStrs \cup MalformedStrs \cup {EmptyStr}}
                 \cup {None}

NoCall == [fn |-> "none", args |-> <<>>]

NoRet == Ok(0)

(* float(a) - float(b), the expression of the three signed deltas *)
SignedDelta(a, b) ==
    LET x == PyFloat(a)
        y == PyFloat(b)
    IN  IF ~x.ok THEN x ELSE IF ~y.ok THEN y ELSE Ok(x.val - y.val)

CallClasificar(m, t) ==
    /\ call' = [fn |-> "clasificar_delta", args |-> <<Num(m), Num(t)>>]
    /\ ret' = Ok(clasificar_delta(m, t))

CallSafeFloat(x) ==
    /\ call' = [fn |-> "safe_float_convert", args |-> <<x>>]
    /\ ret' = safe_float_convert(Put(EmptyDict, <<"tfaseR", 1>>, x), <<"tfaseR", 1>>)

CallSignedDelta(a, b) ==
    /\ call' = [fn |-> "signed_delta", args |-> <<a, b>>]
    /\ ret' = SignedDelta(a, b)

(* ------------------------- the form, step 1 --------------------------- *)

TextS1 == {"nombreProyecto", "nombreCiudadoMunicipio", "nombreDepartamento",
           "nombreCompleto", "nroConteoTarjeta", "nombreCargo", "direccionProyecto"}

TextValues == {Str(<<>>), Str(<<"a">>)}

CoordValues == {Num(0), Num(4125)}

(* the values a step-1 widget can take *)
S1Values(w) ==
    CASE w \in TextS1 -> TextValues
      [] w = "tipoCoordenada" -> {Str(<<"Urbano">>), Str(<<"Rural">>)}
      [] w = "cantidadObjetos" -> {Num(n) : n \in 1..MaxObj}
      [] w \in {"latitud", "longitud"} -> CoordValues

S1Widgets == TextS1 \cup {"tipoCoordenada", "cantidadObjetos", "latitud", "longitud"}

(* the widgets' values before the user touches them *)
DefaultS1 ==
    [w \in S1Widgets |->
        CASE w \in TextS1 -> Str(<<>>)
          [] w = "tipoCoordenada" -> Str(<<"Urbano">>)
          [] w = "cantidadObjetos" -> Num(1)
          [] OTHER -> Num(0)]

(* one run of the step-1 page: every widget's value is stored *)
Step1Form(d, w) ==
    [k \in (DOMAIN d) \cup {<<x, 0>> : x \in S1Widgets}
              \cup {<<"fechaCreacionSinFormato", 0>>, <<"fechaCreacion", 0>>,
                    <<"fechaImagenSinFormato", 0>>, <<"fechaImagen", 0>>} |->
        IF k[2] = 0 /\ k[1] \in S1Widgets THEN w[k[1]]
        ELSE IF k \in {<<"fechaCreacionSinFormato", 0>>, <<"fechaImagenSinFormato", 0>>} THEN Date
        ELSE IF k \in {<<"fechaCreacion", 0>>, <<"fechaImagen", 0>>} THEN Str(<<"2026-11-04">>)
        ELSE d[k]]

(* ------------------------- the form, step 2 --------------------------- *)

NumWidgets == <<"tempMaxImgTermo", "tempMinImgTermo", "tempPromImgTermo",
                "emisividadImgTermo", "bgTemp", "desvEst", "deltaT",
                "tfaseR", "tfaseS", "tfaseT", "tempFondo">>

ObjWidgets == {"equipoEvaluado", "marcaEquipoEvaluado", "objetoEquipoEvaluado",
               "imgTermografica", "imgEspacio", "conclusiones"}
                  \cup {NumWidgets[j] : j \in DOMAIN NumWidgets}

(* the widgets of one object before the user touches them *)
DefaultObj ==
    [w \in ObjWidgets |->
        CASE w \in {"equipoEvaluado", "marcaEquipoEvaluado", "objetoEquipoEvaluado",
                    "conclusiones"} -> Str(<<>>)
          [] w \in {"imgTermografica", "imgEspacio"} -> None
          [] OTHER -> Num(0)]

Reading(r, s, t, p) ==
    [DefaultObj EXCEPT !["imgTermografica"] = File, !["imgEspacio"] = File,
                       !["tfaseR"] = Num(r), !["tfaseS"] = Num(s),
                       !["tfaseT"] = Num(t), !["tempPromImgTermo"] = Num(p)]

Described(o) ==
    [o EXCEPT !["equipoEvaluado"] = Str(<<"a">>), !["marcaEquipoEvaluado"] = Str(<<"a">>),
              !["objetoEquipoEvaluado"] = Str(<<"a">>), !["conclusiones"] = Str(<<"a">>),
              !["tempMaxImgTermo"] = Num(30000), !["tempMinImgTermo"] = Num(4125),
              !["emisividadImgTermo"] = Num(4125), !["bgTemp"] = Num(4125),
              !["desvEst"] = Num(4125), !["deltaT"] = Num(4125),
              !["tempFondo"] = Num(4125)]

(* the bounded set of what the user can have entered for one object *)
ObjectInputs ==
    { DefaultObj,
      [DefaultObj EXCEPT !["imgTermografica"] = File],
      Reading(0, 0, 0, 0),
      Described(Reading(30000, 25000, 22000, 25000)),
      Described(Reading(30125, 4000, 0, 45000)) }

(* the body of the form loop without the substitution of lines 276-277 *)
FormObject_keeps_deltaT(d, i, w) ==
    LET marca == IF w["marcaEquipoEvaluado"] = Str(<<>>) THEN Str(<<"N/A">>)
                 ELSE w["marcaEquipoEvaluado"]
        NA(x) == IF x = Num(0) THEN Str(<<"N/A">>) ELSE x
        head == {"equipoEvaluado", "marcaEquipoEvaluado", "objetoEquipoEvaluado",
                 "imgTermografica"}
        written == IF w["imgTermografica"] = None THEN head
                   ELSE IF w["imgEspacio"] = None THEN head \cup {"imgEspacio"}
                   ELSE ObjWidgets
    IN  [k \in (DOMAIN d) \cup {<<x, i>> : x \in written} |->
            IF k[2] = i /\ k[1] \in written
            THEN CASE k[1] = "marcaEquipoEvaluado" -> marca
                   [] k[1] \in {"bgTemp", "desvEst"} -> NA(w[k[1]])
                   [] OTHER -> w[k[1]]
            ELSE d[k]]

(* the body of the form loop for object i; the two `continue` statements   *)
(* skip the widgets below a missing image                                  *)
FormObject(d, i, w) ==
    LET marca == IF w["marcaEquipoEvaluado"] = Str(<<>>) THEN Str(<<"N/A">>)
                 ELSE w["marcaEquipoEvaluado"]
        NA(x) == IF x = Num(0) THEN Str(<<"N/A">>) ELSE x
        head == {"equipoEvaluado", "marcaEquipoEvaluado", "objetoEquipoEvaluado",
                 "imgTermografica"}
        written == IF w["imgTermografica"] = None THEN head
                   ELSE IF w["imgEspacio"] = None THEN head \cup {"imgEspacio"}
                   ELSE ObjWidgets
    IN  [k \in (DOMAIN d) \cup {<<x, i>> : x \in written} |->
            IF k[2] = i /\ k[1] \in written
            THEN CASE k[1] = "marcaEquipoEvaluado" -> marca
                   [] k[1] \in {"bgTemp", "desvEst", "deltaT"} -> NA(w[k[1]])
                   [] OTHER -> w[k[1]]
            ELSE d[k]]

(* for i in range(1, cantidad_objetos + 1) of the form *)
RECURSIVE FormLoop(_, _, _, _)
FormLoop(d, u, i, n) ==
    IF i > n THEN d ELSE FormLoop(FormObject(d, i, u[i]), u, i + 1, n)

cantidad_objetos(d) == d[<<"cantidadObjetos", 0>>].v

(* ----------------------- the generate handler ------------------------- *)

UpperPiece(p) ==
    CASE p = "a" -> "A"
      [] p = "Urbano" -> "URBANO"
      [] p = "Rural" -> "RURAL"
      [] p = "Posible deficiencia" -> "POSIBLE DEFICIENCIA"
      [] p = "Se requiere mas informacion" -> "SE REQUIERE MAS INFORMACION"
      [] p = "Probable deficiencia" -> "PROBABLE DEFICIENCIA"
      [] p = "Reparar en la proxima parada disponible" -> "REPARAR EN LA PROXIMA PARADA DISPONIBLE"
      [] p = "Deficiencia" -> "DEFICIENCIA"
      [] p = "Reparar tan pronto como sea posible" -> "REPARAR TAN PRONTO COMO SEA POSIBLE"
      [] p = "Deficiencia mayor" -> "DEFICIENCIA MAYOR"
      [] p = "Reparar inmediatamente" -> "REPARAR INMEDIATAMENTE"
      [] p = "Sin clasificacion" -> "SIN CLASIFICACION"
      [] p = "Verificar datos ingresados" -> "VERIFICAR DATOS INGRESADOS"
      [] OTHER -> p

(* str.upper() *)
Upper(s) == [j \in 1..Len(s) |-> UpperPiece(s[j])]

(* on the flat dict of the form: every str value in upper case, every      *)
(* other value as it is                                                    *)
convertir_a_mayusculas(d) ==
    [k \in DOMAIN d |-> IF d[k].t = "str" THEN Str(Upper(d[k].v)) ELSE d[k]]

NoExc == [exc |-> "", line |-> 0]

Exc(e, l) == [exc |-> e, line |-> l]

Critical == <<"tfaseR", "tfaseS", "tfaseT", "tempPromImgTermo">>

Pairs == <<"Rs", "St", "Tr">>

(* f"{magnitude} *C ({label} - {action})", * standing for the degree sign *)
Display(mag, label, action) ==
    FormatFloat(mag) \o <<" *C (">> \o label \o <<" - ">> \o action \o <<")">>

(* the magnitude without abs() *)
Magnitude_signed(signed) == Round2(signed)

(* round(abs(signed), 2) *)
Magnitude(signed) == Round2(Abs(signed))

(* the difference with its minuend read from the key the previous build    *)
(* left, when there is one                                                 *)
Difference_stale(d, i, a, b) ==
    IF <<"valNumResDeltaRs", i>> \in DOMAIN d
    THEN SignedDelta(d[<<"valNumResDeltaRs", i>>], Get(d, <<b, i>>))
    ELSE SignedDelta(Get(d, <<a, i>>), Get(d, <<b, i>>))

(* float(data.get(a)) - float(data.get(b)) of object i *)
Difference(d, i, a, b) == SignedDelta(Get(d, <<a, i>>), Get(d, <<b, i>>))

(* bool(x) of a stored value *)
Truthy(x) ==
    CASE x.t = "none" -> FALSE
      [] x.t = "num" -> x.v # 0
      [] x.t = "str" -> x.v # <<>>
      [] OTHER -> TRUE

Raised(d, e, l) == [d |-> d, exc |-> Exc(e, l)]

(* lines 350-352: the three display strings, from the stored magnitude,    *)
(* classification and action                                               *)
Line350(d, i) ==
    [d |-> PutSeq(d, [j \in 1..3 |->
             <<<<"delta" \o Pairs[j], i>>,
               Str(Display(Get(d, <<"valNumDelta" \o Pairs[j], i>>).v,
                           Get(d, <<"clasificacionDelta" \o Pairs[j], i>>).v,
                           Get(d, <<"accionDelta" \o Pairs[j], i>>).v))>>]),
     exc |-> NoExc]

(* clasificar_delta(float(valNumDelta...), float(tempNPromImgTermo...)) *)
Classified(d, i, pr) ==
    clasificar_delta(PyFloat(Get(d, <<"valNumDelta" \o pr, i>>)).val,
                     PyFloat(Get(d, <<"tempNPromImgTermo", i>>)).val)

(* lines 342-348: the classifications, then the actions; float() of an     *)
(* average temperature that is None raises at the first of them            *)
Line342(d, i) ==
    IF ~PyFloat(Get(d, <<"tempNPromImgTermo", i>>)).ok
    THEN Raised(d, PyFloat(Get(d, <<"tempNPromImgTermo", i>>)).exc, 342)
    ELSE Line350(PutSeq(d, [j \in 1..6 |->
             IF j <= 3
             THEN <<<<"clasificacionDelta" \o Pairs[j], i>>,
                    Str(<<Classified(d, i, Pairs[j])[1]>>)>>
             ELSE <<<<"accionDelta" \o Pairs[j - 3], i>>,
                    Str(<<Classified(d, i, Pairs[j - 3])[2]>>)>>]), i)

(* lines 338-340: the magnitudes of the stored signed deltas *)
Line338(d, i) ==
    Line342(PutSeq(d, [j \in 1..3 |->
                <<<<"valNumDelta" \o Pairs[j], i>>,
                  Num(Magnitude(Get(d, <<"valNumResDelta" \o Pairs[j], i>>).v))>>]), i)

(* line 336 *)
Line336(d, i) ==
    IF ~Difference(d, i, "tNfaseT", "tNfaseR").ok
    THEN Raised(d, Difference(d, i, "tNfaseT", "tNfaseR").exc, 336)
    ELSE Line338(Put(d, <<"valNumResDeltaTr", i>>,
                     Num(Difference(d, i, "tNfaseT", "tNfaseR").val)), i)

(* line 335 *)
Line335(d, i) ==
    IF ~Difference(d, i, "tNfaseS", "tNfaseT").ok
    THEN Raised(d, Difference(d, i, "tNfaseS", "tNfaseT").exc, 335)
    ELSE Line336(Put(d, <<"valNumResDeltaSt", i>>,
                     Num(Difference(d, i, "tNfaseS", "tNfaseT").val)), i)

(* line 334 *)
Line334(d, i) ==
    IF ~Difference(d, i, "tNfaseR", "tNfaseS").ok
    THEN Raised(d, Difference(d, i, "tNfaseR", "tNfaseS").exc, 334)
    ELSE Line335(Put(d, <<"valNumResDeltaRs", i>>,
                     Num(Difference(d, i, "tNfaseR", "tNfaseS").val)), i)

(* lines 329-332: the copies of the four critical fields *)
Line329(d, i) ==
    Line334(PutSeq(d, << <<<<"tNfaseR", i>>, Get(d, <<"tfaseR", i>>)>>,
                         <<<<"tNfaseS", i>>, Get(d, <<"tfaseS", i>>)>>,
                         <<<<"tNfaseT", i>>, Get(d, <<"tfaseT", i>>)>>,
                         <<<<"tempNPromImgTermo", i>>, Get(d, <<"tempPromImgTermo", i>>)>> >>), i)

(* lines 317-352: the body of the delta loop for object i, on the session  *)
(* data d, statement after statement; an exception leaves the assignments  *)
(* made before it.  The images of lines 319-327 go to the local datos.     *)
DeltaObject(d, i, docv) ==
    IF <<"imgTermografica", i>> \notin DOMAIN d THEN Raised(d, "KeyError", 320)
    ELSE IF ~Truthy(d[<<"imgTermografica", i>>]) THEN Raised(d, "AttributeError", 321)
    ELSE IF docv = "unset" THEN Raised(d, "AttributeError", 322)
    ELSE IF <<"imgEspacio", i>> \notin DOMAIN d THEN Raised(d, "KeyError", 325)
    ELSE IF ~Truthy(d[<<"imgEspacio", i>>]) THEN Raised(d, "AttributeError", 326)
    ELSE Line329(d, i)

(* for i in range(1, cantidad_objetos + 1) of the delta loop; the first     *)
(* exception ends it                                                       *)
RECURSIVE DeltaLoop(_, _, _, _)
DeltaLoop(d, i, n, docv) ==
    IF i > n THEN [d |-> d, exc |-> NoExc]
    ELSE LET r == DeltaObject(d, i, docv)
         IN  IF r.exc # NoExc THEN r ELSE DeltaLoop(r.d, i + 1, n, docv)

(* any(data.get(k) is None for k in campos_criticos) *)
MissingCritical(d, i) == \E j \in 1..4 : Get(d, <<Critical[j], i>>) = None

(* lines 357-373: the first object with a critical field that is None, 0   *)
(* when there is none                                                      *)
FirstIncomplete(d, n) ==
    LET bad == {i \in 1..n : MissingCritical(d, i)}
    IN  IF bad = {} THEN 0 ELSE CHOOSE i \in bad : \A j \in bad : i <= j

Error(text, i) == [text |-> text, obj |-> i]

(* float(str(x).replace(',', '.')) of a stored coordinate *)
Coordinate(x) ==
    IF x.t = "num" THEN PyFloatStr(ReplaceComma(FormatFloat(x.v)))
    ELSE IF x.t = "str" THEN PyFloatStr(ReplaceComma(x.v))
    ELSE PyFloatStr(<<"N", "o", "n", "e">>)

(* the map step with the exception of the renderer left uncaught *)
MapStep_uncaught(d, datos, mapRaises) ==
    LET urbano == d[<<"tipoCoordenada", 0>>] = Str(<<"Urbano">>)
        src == IF urbano THEN datos ELSE d
        lat == Coordinate(src[<<"latitud", 0>>])
        lon == Coordinate(src[<<"longitud", 0>>])
    IN  IF Truthy(d[<<"latitud", 0>>]) /\ Truthy(d[<<"longitud", 0>>])
        THEN IF ~lat.ok \/ ~lon.ok \/ mapRaises
             THEN [datos |-> datos, propagates |-> TRUE, shown |-> <<>>]
             ELSE [datos |-> Put(datos, <<"imgMapsProyecto", 0>>, InlineImage),
                   propagates |-> FALSE, shown |-> <<>>]
        ELSE [datos |-> datos, propagates |-> FALSE,
              shown |-> <<Error("Faltan coordenadas para el mapa", 0)>>]

(* lines 394-431: the map of either mode; its exceptions are caught by the *)
(* inner try and reported, and none leaves the block                       *)
MapStep(d, datos, mapRaises) ==
    LET urbano == d[<<"tipoCoordenada", 0>>] = Str(<<"Urbano">>)
        src == IF urbano THEN datos ELSE d
        lat == Coordinate(src[<<"latitud", 0>>])
        lon == Coordinate(src[<<"longitud", 0>>])
    IN  IF Truthy(d[<<"latitud", 0>>]) /\ Truthy(d[<<"longitud", 0>>])
        THEN IF ~lat.ok \/ ~lon.ok \/ mapRaises
             THEN [datos |-> datos, propagates |-> FALSE,
                   shown |-> <<Error("Coordenadas invalidas para el mapa", 0)>>]
             ELSE [datos |-> Put(datos, <<"imgMapsProyecto", 0>>, InlineImage),
                   propagates |-> FALSE, shown |-> <<>>]
        ELSE [datos |-> datos, propagates |-> FALSE,
              shown |-> <<Error("Faltan coordenadas para el mapa", 0)>>]

Result(d, o, c, sh, r, sv) ==
    [data |-> d, outcome |-> o, crash |-> c, shown |-> sh, rendered |-> r, saved |-> sv]

(* lines 434-449: render and save, and the except that reports either      *)
(* failing                                                                 *)
Render(d, map, e) ==
    IF map.propagates \/ e.render = "render_raises"
    THEN Result(d, "failed", NoExc,
                map.shown \o <<Error("Error al generar el documento", 0)>>, EmptyDict, FALSE)
    ELSE IF e.render = "save_raises"
    THEN Result(d, "failed", NoExc,
                map.shown \o <<Error("Error al generar el documento", 0)>>, map.datos, FALSE)
    ELSE Result(d, "generated", NoExc, map.shown, map.datos, TRUE)

(* lines 357-452: what follows the delta loop: its exception ends the run; *)
(* otherwise the validation loop, then the document                        *)
AfterLoop(loop, datos, n, e) ==
    IF loop.exc # NoExc
    THEN Result(loop.d, "crashed", loop.exc, <<>>, EmptyDict, FALSE)
    ELSE IF FirstIncomplete(loop.d, n) # 0
    THEN Result(loop.d, "incomplete", NoExc,
                <<Error("Faltan valores en las temperaturas de fase o promedio",
                        FirstIncomplete(loop.d, n))>>, EmptyDict, FALSE)
    ELSE Render(loop.d,
                MapStep(loop.d,
                        PutSeq(datos, [j \in 1..(2 * n + 3) |->
                            IF j <= n THEN <<<<"imgTermografica", j>>, InlineImage>>
                            ELSE IF j <= 2 * n THEN <<<<"imgEspacio", j - n>>, InlineImage>>
                            ELSE IF j = 2 * n + 1 THEN <<<<"dia", 0>>, Num(4000)>>
                            ELSE IF j = 2 * n + 2 THEN <<<<"mes", 0>>, Str(<<"NOVIEMBRE">>)>>
                            ELSE <<<<"anio", 0>>, Num(2026000)>>]),
                        e.map),
                e)

(* lines 310-452: the handler of "Finalizar Formulario y Generar Word" on  *)
(* the session data d; e holds what the collaborators do in this run.      *)
(* datos is the upper-case copy made at line 314, before the delta loop    *)
Generate(d, docv, e) ==
    AfterLoop(DeltaLoop(d, 1, cantidad_objetos(d), docv), convertir_a_mayusculas(d),
              cantidad_objetos(d), e)

Event(op, i) == [op |-> op, obj |-> i]

(* the objects whose subtractions of lines 334-336 the delta loop started, *)
(* in the order of the loop: the body of object i gets to line 334 unless  *)
(* one of lines 320-326 raised                                             *)
RECURSIVE ArithEvents(_, _, _, _)
ArithEvents(d, i, n, docv) ==
    IF i > n THEN <<>>
    ELSE LET r == DeltaObject(d, i, docv)
         IN  IF r.exc = NoExc THEN <<Event("delta", i)>> \o ArithEvents(r.d, i + 1, n, docv)
             ELSE IF r.exc.line >= 334 THEN <<Event("delta", i)>>
             ELSE <<>>

(* the objects whose critical fields line 370 tested, in the order of the  *)
(* validation loop, which breaks at the first incomplete one               *)
CheckEvents(d, n) ==
    [j \in 1..(IF FirstIncomplete(d, n) = 0 THEN n ELSE FirstIncomplete(d, n)) |->
        Event("check", j)]

(* the order in which the handler, started on the session data d and       *)
(* ending in g, ran the subtractions and the presence tests: the delta     *)
(* loop of lines 316-352 first, and the validation loop of lines 357-373   *)
(* if no exception ended the run before it                                 *)
Executed(d, docv, g) ==
    ArithEvents(d, 1, cantidad_objetos(d), docv)
        \o (IF g.outcome = "crashed" THEN <<>>
            ELSE CheckEvents(g.data, cantidad_objetos(d)))

(* ---------------------------- navigation ------------------------------ *)

(* [k for k, v in data.items() if v is None or v == ""] *)
missing(d) == {k \in DOMAIN d : d[k] = None \/ d[k] = Str(<<>>)}

(* lines 173-179: the template of the page; a template that is not found   *)
(* is reported and leaves session_state.doc as it was                      *)
LoadTemplate(docv, found) ==
    IF found THEN [doc |-> "loaded", shown |-> <<>>]
    ELSE [doc |-> docv, shown |-> <<Error("No se encontro la plantilla", 0)>>]

NoBuild == [template |-> FALSE, map |-> FALSE, render |-> "none"]

(* a run of the step-1 page after the user changed widget w *)
Step1Edit(w, x) ==
    /\ step = 1
    /\ ui.s1[w] # x
    /\ ui' = [ui EXCEPT !.s1[w] = x]
    /\ data' = Step1Form(data, ui'.s1)
    /\ shown' = <<>>
    /\ UNCHANGED <<step, doc, env, outcome, crash, rendered, saved, nruns, streak, trace, call, ret>>

(* "Siguiente" with a field missing: next_step reports it and stays *)
Step1NextRejected ==
    /\ step = 1
    /\ missing(Step1Form(data, ui.s1)) # {}
    /\ data' = Step1Form(data, ui.s1)
    /\ shown' = <<Error("Por favor completa todos los campos antes de continuar", 0)>>
    /\ UNCHANGED <<step, ui, doc, env, outcome, crash, rendered, saved, nruns, streak, trace, call, ret>>

(* prev_step, which no widget of the page calls: the step after it *)
prev_step(s) == IF s > 1 THEN s - 1 ELSE s

(* "Siguiente" advancing without the test of the missing values *)
Step1Next_unchecked(found) ==
    /\ step = 1
    /\ step' = step + 1
    /\ doc' = LoadTemplate(doc, found).doc
    /\ shown' = LoadTemplate(doc, found).shown
    /\ data' = FormLoop(Step1Form(data, ui.s1), ui.obj, 1,
                        cantidad_objetos(Step1Form(data, ui.s1)))
    /\ env' = [NoBuild EXCEPT !.template = found]
    /\ UNCHANGED <<ui, outcome, crash, rendered, saved, nruns, streak, trace, call, ret>>

(* "Siguiente" with every field filled: next_step advances and reruns the  *)
(* script, which shows the step-2 page for the first time                  *)
Step1Next(found) ==
    /\ step = 1
    /\ missing(Step1Form(data, ui.s1)) = {}
    /\ step' = step + 1
    /\ doc' = LoadTemplate(doc, found).doc
    /\ shown' = LoadTemplate(doc, found).shown
    /\ data' = FormLoop(Step1Form(data, ui.s1), ui.obj, 1,
                        cantidad_objetos(Step1Form(data, ui.s1)))
    /\ env' = [NoBuild EXCEPT !.template = found]
    /\ UNCHANGED <<ui, outcome, crash, rendered, saved, nruns, streak, trace, call, ret>>

(* a run of the step-2 page after the user changed the widgets of object i; *)
(* the template file is there or not as it was when the page first opened  *)
Step2Edit(i, w) ==
    /\ step = 2
    /\ nruns < MaxRuns
    /\ i \in 1..cantidad_objetos(data)
    /\ ui.obj[i] # w
    /\ ui' = [ui EXCEPT !.obj[i] = w]
    /\ doc' = LoadTemplate(doc, env.template).doc
    /\ shown' = LoadTemplate(doc, env.template).shown
    /\ data' = FormLoop(data, ui'.obj, 1, cantidad_objetos(data))
    /\ env' = [NoBuild EXCEPT !.template = env.template]
    /\ outcome' = "none"
    /\ crash' = NoExc
    /\ rendered' = EmptyDict
    /\ saved' = FALSE
    /\ nruns' = nruns + 1
    /\ streak' = 0
    /\ trace' = <<>>
    /\ UNCHANGED <<step, call, ret>>

(* a run of the step-2 page with the generate button pressed: the page is  *)
(* drawn from the unchanged widgets, then the handler runs                 *)
Step2Build(mapRaises, render) ==
    /\ step = 2
    /\ nruns < MaxRuns
    /\ \E g \in {Generate(FormLoop(data, ui.obj, 1, cantidad_objetos(data)),
                            LoadTemplate(doc, env.template).doc,
                            [template |-> env.template, map |-> mapRaises, render |-> render])} :
       LET tpl == LoadTemplate(doc, env.template)
           e == [template |-> env.template, map |-> mapRaises, render |-> render]
       IN  /\ doc' = tpl.doc
           /\ env' = e
           /\ data' = g.data
           /\ outcome' = g.outcome
           /\ crash' = g.crash
           /\ shown' = tpl.shown \o g.shown
           /\ rendered' = g.rendered
           /\ saved' = g.saved
           /\ trace' = Executed(FormLoop(data, ui.obj, 1, cantidad_objetos(data)),
                                tpl.doc, g)
    /\ nruns' = nruns + 1
    /\ streak' = streak + 1
    /\ UNCHANGED <<step, ui, call, ret>>

Init ==
    /\ step = 1
    /\ ui = [s1 |-> DefaultS1, obj |-> [i \in 1..MaxObj |-> DefaultObj]]
    /\ data = Step1Form(EmptyDict, DefaultS1)
    /\ doc = "unset"
    /\ env = NoBuild
    /\ outcome = "none"
    /\ crash = NoExc
    /\ shown = <<>>
    /\ rendered = EmptyDict
    /\ saved = FALSE
    /\ nruns = 0
    /\ streak = 0
    /\ trace = <<>>
    /\ call = NoCall
    /\ ret = NoRet

NextFn ==
    \/ \E m \in MagGrid, t \in TempGrid : CallClasificar(m, t) /\ UNCHANGED <<step, data, ui, doc, env, outcome, crash, shown, rendered, saved, nruns, streak, trace>>
    \/ \E x \in RawValues : CallSafeFloat(x) /\ UNCHANGED <<step, data, ui, doc, env, outcome, crash, shown, rendered, saved, nruns, streak, trace>>
    \/ \E a, b \in RawValues : CallSignedDelta(a, b) /\ UNCHANGED <<step, data, ui, doc, env, outcome, crash, shown, rendered, saved, nruns, streak, trace>>

SpecFn == Init /\ [][NextFn]_vars

Next ==
    \/ \E w \in S1Widgets : \E x \in S1Values(w) : Step1Edit(w, x)
    \/ Step1NextRejected
    \/ \E found \in BOOLEAN : Step1Next(found)
    \/ \E i \in 1..MaxObj, w \in ObjectInputs : Step2Edit(i, w)
    \/ \E mapRaises \in BOOLEAN, render \in {"ok", "render_raises", "save_raises"} :
            Step2Build(mapRaises, render)

Spec == Init /\ [][Next]_vars

(* ------------------------------ claims -------------------------------- *)

Range(q) == {q[j] : j \in DOMAIN q}

N == cantidad_objetos(data)

Built == step = 2 /\ outcome # "none"

LoopCompleted == step = 2 /\ outcome \in {"incomplete", "generated", "failed"}

ResultNames ==
    {"valNumResDeltaRs", "valNumResDeltaSt", "valNumResDeltaTr",
     "valNumDeltaRs", "valNumDeltaSt", "valNumDeltaTr",
     "clasificacionDeltaRs", "clasificacionDeltaSt", "clasificacionDeltaTr",
     "accionDeltaRs", "accionDeltaSt", "accionDeltaTr",
     "deltaRs", "deltaSt", "deltaTr"}

(* the decision table of the specification, one row per priority *)
DecisionTable(m, t) ==
    << <<m > 0 /\ m < 4000, "Posible deficiencia", "Se requiere mas informacion">>,
       <<m >= 4000 /\ m <= 15000, "Probable deficiencia", "Reparar en la proxima parada disponible">>,
       <<m > 15000 /\ t >= 21000 /\ t <= 40000, "Deficiencia", "Reparar tan pronto como sea posible">>,
       <<m > 15000 /\ t > 40000, "Deficiencia mayor", "Reparar inmediatamente">>,
       <<TRUE, "Sin clasificacion", "Verificar datos ingresados">> >>

FirstMatch(m, t) ==
    LET rows == DecisionTable(m, t)
        j == CHOOSE x \in 1..5 : rows[x][1] /\ \A y \in 1..(x - 1) : ~rows[y][1]
    IN  <<rows[j][2], rows[j][3]>>

(* C1: for every magnitude and average temperature of the grid,            *)
(* clasificar_delta returns the (label, action) of the first matching row  *)
(* of the decision table; the first two rows do not look at the            *)
(* temperature, and magnitude 0 and the gap (magnitude > 15, temperature   *)
(* < 21) fall to the default row                                           *)
C1_DecisionTable ==
    call.fn = "clasificar_delta" =>
        LET m == call.args[1].v
            t == call.args[2].v
        IN  /\ ret.val = FirstMatch(m, t)
            /\ (m > 0 /\ m < 4000) => ret.val[1] = "Posible deficiencia"
            /\ (m >= 4000 /\ m <= 15000) => ret.val[1] = "Probable deficiencia"
            /\ (m = 0 \/ (m > 15000 /\ t < 21000)) => ret.val[1] = "Sin clasificacion"

C1_Witness ==
    /\ call.fn = "clasificar_delta"
    /\ call.args[1].v = 15000
    /\ call.args[2].v = 25000
    /\ ret.val = <<"Probable deficiencia", "Reparar en la proxima parada disponible">>

(* C2: a build started while some object lacks a critical field ends in    *)
(* the reported error of the first such object, and renders and saves no   *)
(* document                                                                *)
C2_MissingFieldReported ==
    (Built /\ FirstIncomplete(data, N) # 0) =>
        /\ Error("Faltan valores en las temperaturas de fase o promedio",
                 FirstIncomplete(data, N)) \in Range(shown)
        /\ rendered = EmptyDict
        /\ ~saved

(* C3: a build that fails because an object lacks a critical field writes  *)
(* no derived delta field of any object                                    *)
C3_NoPartialOutput ==
    [][(step = 2 /\ outcome' # "none" /\ nruns' = nruns + 1
          /\ FirstIncomplete(data', N) # 0)
        => \A i \in 1..MaxObj : \A x \in ResultNames :
               Get(data', <<x, i>>) = Get(data, <<x, i>>)]_vars

(* C4: the record handed to the template by a build that renders holds,    *)
(* for every object, the three display strings of the readings current at  *)
(* that build (in the upper case the record is converted to)               *)
C4_DatosHasDeltas ==
    (step = 2 /\ outcome = "generated") =>
        \A i \in 1..N : \A j \in 1..3 :
            /\ <<"delta" \o Pairs[j], i>> \in DOMAIN rendered
            /\ rendered[<<"delta" \o Pairs[j], i>>]
                   = Str(Upper(data[<<"delta" \o Pairs[j], i>>].v))

(* the number a stored value stands for, comma or period *)
Meaning(x) == IF x.t = "num" THEN x.v ELSE PyFloatStr(ReplaceComma(x.v)).val

IsDecimal(x) == x.t = "num" \/ (x.t = "str" /\ PyFloatStr(ReplaceComma(x.v)).ok)

C6_Normalize ==
    call.fn = "safe_float_convert" =>
        LET x == call.args[1]
        IN  /\ x.t = "num" => ret = Ok(x.v)
            /\ \A n \in RawNums : \A sep \in {".", ","} :
                   x = Str(Decimal(n, sep)) => ret = Ok(n)
            /\ x = None => ~ret.ok

C6_Witness ==
    /\ call.fn = "safe_float_convert"
    /\ call.args[1] = Str(<<"2", "1", ",", "5">>)
    /\ ret = Ok(21500)

ErrorKind(r) == <<r.ok, r.exc, r.msg>>

(* C7: safe_float_convert fails on None and on the empty string with an    *)
(* error distinct from the one of a malformed string                       *)
C7_AbsentDistinct ==
    (call.fn = "safe_float_convert" /\ call.args[1] \in {None, Str(EmptyStr)}) =>
        /\ ~ret.ok
        /\ \A m \in MalformedStrs :
               ErrorKind(ret) # ErrorKind(PyFloatStr(ReplaceComma(m)))

Val(k) == data[k].v

(* C8 as stated: after a build that completes the delta loop every object  *)
(* has the signed deltas R-S, S-T and T-R of its phase temperatures, they  *)
(* sum to zero, and each magnitude is the absolute value of its signed     *)
(* delta                                                                   *)
C8_MagnitudeIsAbs ==
    LoopCompleted =>
        \A i \in 1..N :
            /\ Val(<<"valNumResDeltaRs", i>>) = Val(<<"tfaseR", i>>) - Val(<<"tfaseS", i>>)
            /\ Val(<<"valNumResDeltaSt", i>>) = Val(<<"tfaseS", i>>) - Val(<<"tfaseT", i>>)
            /\ Val(<<"valNumResDeltaTr", i>>) = Val(<<"tfaseT", i>>) - Val(<<"tfaseR", i>>)
            /\ Val(<<"valNumResDeltaRs", i>>) + Val(<<"valNumResDeltaSt", i>>)
                   + Val(<<"valNumResDeltaTr", i>>) = 0
            /\ \A j \in 1..3 : Val(<<"valNumDelta" \o Pairs[j], i>>)
                                   = Abs(Val(<<"valNumResDelta" \o Pairs[j], i>>))

(* C8, amended: after a build that completes the delta loop every object   *)
(* 1..N, and no other, has the signed deltas R-S, S-T and T-R of its phase *)
(* temperatures, they sum to zero, and each magnitude is the absolute      *)
(* value of its signed delta rounded to two decimals: a non-negative       *)
(* multiple of 0.01 at most 0.005 away from it                             *)
C8_MagnitudeIsRoundedAbs ==
    LoopCompleted =>
        /\ \A i \in 1..N :
            /\ Val(<<"valNumResDeltaRs", i>>) = Val(<<"tfaseR", i>>) - Val(<<"tfaseS", i>>)
            /\ Val(<<"valNumResDeltaSt", i>>) = Val(<<"tfaseS", i>>) - Val(<<"tfaseT", i>>)
            /\ Val(<<"valNumResDeltaTr", i>>) = Val(<<"tfaseT", i>>) - Val(<<"tfaseR", i>>)
            /\ Val(<<"valNumResDeltaRs", i>>) + Val(<<"valNumResDeltaSt", i>>)
                   + Val(<<"valNumResDeltaTr", i>>) = 0
            /\ \A j \in 1..3 :
                   LET mag == Val(<<"valNumDelta" \o Pairs[j], i>>)
                       signed == Val(<<"valNumResDelta" \o Pairs[j], i>>)
                   IN  /\ mag >= 0
                       /\ mag % 10 = 0
                       /\ Abs(mag - Abs(signed)) <= 5
        /\ \A i \in (N + 1)..MaxObj : \A x \in ResultNames : <<x, i>> \notin DOMAIN data

C8_Witness ==
    /\ LoopCompleted
    /\ N = 2
    /\ Val(<<"valNumResDeltaTr", 1>>) = -30125
    /\ Val(<<"valNumDeltaTr", 1>>) = 30120

(* every object has both images and its four critical fields *)
Complete == \A i \in 1..N :
    /\ Truthy(Get(data, <<"imgTermografica", i>>))
    /\ Truthy(Get(data, <<"imgEspacio", i>>))
    /\ ~MissingCritical(data, i)

MapFailed ==
    \/ env.map
    \/ ~Truthy(data[<<"latitud", 0>>])
    \/ ~Truthy(data[<<"longitud", 0>>])

(* C9: a build over complete objects whose map raises, or whose latitude   *)
(* or longitude is missing, in either mode, still renders and saves the    *)
(* document, without a map image, whenever the template engine itself      *)
(* does not fail                                                           *)
C9_MapFailureNotFatal ==
    (Built /\ Complete /\ MapFailed /\ doc = "loaded" /\ env.render = "ok") =>
        /\ outcome = "generated"
        /\ saved
        /\ rendered # EmptyDict
        /\ <<"imgMapsProyecto", 0>> \notin DOMAIN rendered
        /\ \E m \in Range(shown) : m.text \in {"Coordenadas invalidas para el mapa",
                                               "Faltan coordenadas para el mapa"}

C9_Witness ==
    /\ Built /\ Complete /\ doc = "loaded" /\ env.render = "ok"
    /\ env.map
    /\ Truthy(data[<<"latitud", 0>>]) /\ Truthy(data[<<"longitud", 0>>])
    /\ data[<<"tipoCoordenada", 0>>] = Str(<<"Rural">>)
    /\ Error("Coordenadas invalidas para el mapa", 0) \in Range(shown)
    /\ saved

(* C10: a build that follows a build, with no change of the inputs in      *)
(* between, leaves every signed delta, magnitude, classification, action   *)
(* and display string of every object as the first build left it           *)
C10_Idempotent ==
    [][(step = 2 /\ outcome # "none" /\ outcome' # "none" /\ nruns' = nruns + 1)
        => \A i \in 1..MaxObj : \A x \in ResultNames :
               Get(data', <<x, i>>) = Get(data, <<x, i>>)]_vars

C10_Witness ==
    /\ streak >= 2
    /\ outcome = "generated"
    /\ \A i \in 1..N : Val(<<"valNumDeltaRs", i>>) > 0

(* C11: in a build, the subtractions of object i run only after the        *)
(* presence test of object i's four critical fields, and nothing runs      *)
(* after a presence test that fails                                        *)
C11_CheckedBeforeArithmetic ==
    Built =>
        /\ \A j \in 1..Len(trace) :
               trace[j].op = "delta" =>
                   \E k \in 1..(j - 1) : trace[k] = Event("check", trace[j].obj)
        /\ \A j \in 1..Len(trace) :
               (trace[j].op = "check" /\ MissingCritical(data, trace[j].obj))
                   => j = Len(trace)

Descriptive ==
    {"equipoEvaluado", "marcaEquipoEvaluado", "objetoEquipoEvaluado", "conclusiones",
     "tempMaxImgTermo", "tempMinImgTermo", "emisividadImgTermo",
     "bgTemp", "desvEst", "deltaT"}

(* a blank brand, or a background temperature, standard deviation or       *)
(* delta-T left at 0.0, the value of an untouched number field             *)
Blank(w, x) ==
    \/ w = "marcaEquipoEvaluado" /\ x = Str(<<>>)
    \/ w \in {"bgTemp", "desvEst", "deltaT"} /\ x = Num(0)

Handed == step = 2 /\ rendered # EmptyDict

(* C12 as stated: every descriptive field of every object is in the record *)
(* handed to the template with the value the user entered, "N/A" standing  *)
(* for a blank brand, background temperature, standard deviation or        *)
(* delta-T                                                                 *)
C12_DescriptiveUnchanged ==
    Handed =>
        \A i \in 1..N : \A w \in Descriptive :
            /\ <<w, i>> \in DOMAIN rendered
            /\ rendered[<<w, i>>] = IF Blank(w, ui.obj[i][w]) THEN Str(<<"N/A">>)
                                    ELSE ui.obj[i][w]

(* C12, amended: every descriptive field of every object is in the record  *)
(* handed to the template; a blank brand, background temperature, standard *)
(* deviation or delta-T is "N/A", any other text is the text the user      *)
(* entered in upper case, and any other number is the number the user      *)
(* entered                                                                 *)
C12_DescriptiveUpperCased ==
    Handed =>
        \A i \in 1..N : \A w \in Descriptive :
            /\ <<w, i>> \in DOMAIN rendered
            /\ rendered[<<w, i>>] =
                   IF Blank(w, ui.obj[i][w]) THEN Str(<<"N/A">>)
                   ELSE IF ui.obj[i][w].t = "str" THEN Str(Upper(ui.obj[i][w].v))
                   ELSE ui.obj[i][w]

C12_Witness ==
    /\ Handed
    /\ N = 2
    /\ ui.obj[1]["equipoEvaluado"] = Str(<<"a">>)
    /\ rendered[<<"equipoEvaluado", 1>>] = Str(<<"A">>)
    /\ rendered[<<"deltaT", 1>>] = Num(4125)
    /\ ui.obj[2]["deltaT"] = Num(0)
    /\ rendered[<<"deltaT", 2>>] = Str(<<"N/A">>)
    /\ rendered[<<"marcaEquipoEvaluado", 2>>] = Str(<<"N/A">>)

(* C13: the step starts at 1; it changes only by next_step taking it from  *)
(* 1 to 2, and only when no value stored in the form data is None or the   *)
(* empty string; with a value missing the step stays; the step is 1 or 2   *)
(* in every reachable state, and prev_step would not take it below 1       *)
C13_StepCounter ==
    /\ step = 1
    /\ [](step \in {1, 2} /\ prev_step(step) >= 1)
    /\ [][((step' # step) =>
              (/\ step = 1
               /\ step' = 2
               /\ missing(data) = {}
               /\ \E found \in BOOLEAN : Step1Next(found)))
          /\ ((step = 1 /\ missing(data) # {}) => (step' = step))]_vars

C13_Witness ==
    /\ step = 2
    /\ nruns = 0
    /\ \A w \in TextS1 : data[<<w, 0>>] = Str(<<"a">>)
    /\ N = 2

====
